---- MODULE Spec2Model ----
(***************************************************************************)
(* Model of the inventory sheet parsers of Virginia_Dashboard:             *)
(*   src/app.py                   class InventoryProcessor        ("app")   *)
(*   src/simple_inventory_app.py  class SimpleInventoryProcessor  ("simple")*)
(*                                                                         *)
(* Representation.  A text (Python str) is a sequence of characters, each  *)
(* a one-character string.  An Arabic word is kept as one indivisible      *)
(* character-like atom written "<...>" (a transliteration); every such     *)
(* atom lies in the Arabic block U+0600..U+06FF and sorts after all ASCII  *)
(* characters.  A float is a record [k, v]: k = "num" with the integer     *)
(* value v (decimal fractions are outside the alphabet used here),         *)
(* k = "inf" with the sign v, or k = "nan".  A raised exception is the     *)
(* record with k = "raise".  A cell of the DataFrame is a record [t, s]:   *)
(* t = "str" with the text s, t = "na" (a missing value, NaN), t = "list"  *)
(* (a non-scalar object such as a two-element list) or t = "bad" (an       *)
(* object whose __str__ raises).                                           *)
(***************************************************************************)
EXTENDS Integers, Sequences, FiniteSets, TLC

VARIABLES
    variant,          \* which of the two processors: "app" or "simple"
    raw_df,           \* self.raw_df: [columns, rows]
    pc,               \* position in process_data / in the helper under test
    idx,              \* position of df.iterrows() (next row to classify)
    current_date,     \* local of process_data: None or a text
    processed_data,   \* local of process_data: the records accumulated
    location_columns, \* self.location_columns / local location_mapping
    processed_df,     \* self.processed_df: None or a sequence of records
    result,           \* what process_data returned: None before the return
    errors,           \* number of st.error reports so far
    calls,            \* number of process_data calls completed
    first_result,     \* history: what the first call returned
    raised,           \* history: the current call ended in its except clause
    cell_in,          \* argument of the helper under test (safe_float)
    float_out,        \* its result
    uploaded_file,    \* main: the uploaded file (None outside main)
    attempts          \* history: the pd.read_csv calls main has made

vars == << variant, raw_df, pc, idx, current_date, processed_data,
           location_columns, processed_df, result, errors, calls,
           first_result, raised, cell_in, float_out, uploaded_file,
           attempts >>

----------------------------------------------------------------------------
(* Bounds of the model.                                                    *)

MaxLen == 3        \* longest cell text drawn for safe_float
MaxRows == 3       \* most data rows in a sheet
MaxCols == 3       \* most columns in a header drawn for the column mapper
MaxFrag == 3       \* how many catalog fragments the drawn headers use
MaxCalls == 2      \* process_data calls on one processor instance
MaxEdgeRows == 2   \* most data rows in a sheet of corner cases
MaxRecs == 3       \* most records in a table drawn for the cleaning pass
MaxIndex == 3      \* largest column index in a map drawn for the extraction

Variants == {"app", "simple"}

None == [t |-> "none", s |-> << >>]
NA == [t |-> "na", s |-> << >>]
LIST == [t |-> "list", s |-> << >>]
BAD == [t |-> "bad", s |-> << >>]
Str(s) == [t |-> "str", s |-> s]

----------------------------------------------------------------------------
(* Characters and texts.                                                   *)

\* ASCII characters of the model in code-point order.
AsciiOrder ==
    << " ", "\"", ",", "-", "0", "1", "2", "3", "4", "5", "6", "7", "8", "9",
       "A", "B", "C", "D", "E", "F", "G", "H", "I", "J", "K", "L", "M", "N",
       "O", "P", "Q", "R", "S", "T", "U", "V", "W", "X", "Y", "Z", "[", "]",
       "a", "b", "c", "d", "e", "f", "g", "h", "i", "j", "k", "l", "m", "n",
       "o", "p", "q", "r", "s", "t", "u", "v", "w", "x", "y", "z" >>

\* Arabic word atoms in code-point order of the words they stand for:
\* al-ti`dad < al-kammiyya < al-muntaj < bi-wahdat < ghayr < qiyas < muhaddad
\* < muntaj < yanayir.
ArabicOrder ==
    << "<altidad>", "<alkamiya>", "<almuntaj>", "<biwahdat>", "<ghayr>",
       "<qiyas>", "<muhaddad>", "<muntaj>", "<yanayir>" >>

CharOrder == AsciiOrder \o ArabicOrder

CharSet == { CharOrder[i] : i \in 1..Len(CharOrder) }

\* ord(c), up to an order-preserving renumbering.
RankTable == [c \in CharSet |-> CHOOSE i \in 1..Len(CharOrder) : CharOrder[i] = c]
Rank(c) == RankTable[c]

IsArabic(c) == \E i \in 1..Len(ArabicOrder) : ArabicOrder[i] = c

Digits == << "0", "1", "2", "3", "4", "5", "6", "7", "8", "9" >>
IsDigit(c) == \E i \in 1..10 : Digits[i] = c
DigitVal(c) == (CHOOSE i \in 1..10 : Digits[i] = c) - 1
IsSpace(c) == c = " "

Upper == << "A", "B", "C", "D", "E", "F", "G", "H", "I", "J", "K", "L", "M",
            "N", "O", "P", "Q", "R", "S", "T", "U", "V", "W", "X", "Y", "Z" >>
Lower == << "a", "b", "c", "d", "e", "f", "g", "h", "i", "j", "k", "l", "m",
            "n", "o", "p", "q", "r", "s", "t", "u", "v", "w", "x", "y", "z" >>

\* str.lower() on one character (what re.IGNORECASE and strptime compare).
LowerTable ==
    [c \in CharSet |->
        IF \E i \in 1..26 : Upper[i] = c
        THEN Lower[CHOOSE i \in 1..26 : Upper[i] = c]
        ELSE c]
LowerChar(c) == LowerTable[c]

LowerText(s) == [i \in 1..Len(s) |-> LowerChar(s[i])]

\* str.replace(c, ''): every occurrence of the character removed.
RECURSIVE RemoveChar(_, _)
RemoveChar(s, c) ==
    IF s = << >> THEN << >>
    ELSE IF Head(s) = c THEN RemoveChar(Tail(s), c)
    ELSE << Head(s) >> \o RemoveChar(Tail(s), c)

RECURSIVE LStrip(_)
LStrip(s) ==
    IF s # << >> /\ IsSpace(Head(s)) THEN LStrip(Tail(s)) ELSE s

RECURSIVE RStrip(_)
RStrip(s) ==
    IF s # << >> /\ IsSpace(s[Len(s)]) THEN RStrip(SubSeq(s, 1, Len(s) - 1))
    ELSE s

\* str.strip()
Strip(s) == RStrip(LStrip(s))

\* sub is a substring of s starting at position i.
MatchAt(s, i, sub) ==
    /\ i >= 1
    /\ i + Len(sub) - 1 <= Len(s)
    /\ SubSeq(s, i, i + Len(sub) - 1) = sub

\* Python's `sub in s`.
Contains(s, sub) == \E i \in 1..(Len(s) + 1) : MatchAt(s, i, sub)

AllDigits(s) == s # << >> /\ \A i \in 1..Len(s) : IsDigit(s[i])

RECURSIVE DigitsVal(_)
DigitsVal(s) ==
    IF s = << >> THEN 0
    ELSE DigitsVal(SubSeq(s, 1, Len(s) - 1)) * 10 + DigitVal(s[Len(s)])

\* Python's str < str: lexicographic on code points, a proper prefix first.
RECURSIVE TextLess(_, _)
TextLess(a, b) ==
    IF b = << >> THEN FALSE
    ELSE IF a = << >> THEN TRUE
    ELSE IF Head(a) = Head(b) THEN TextLess(Tail(a), Tail(b))
    ELSE Rank(Head(a)) < Rank(Head(b))

----------------------------------------------------------------------------
(* Floats and numeric coercion.                                            *)

Num(n) == [k |-> "num", v |-> n]
Inf(sign) == [k |-> "inf", v |-> sign]
NaN == [k |-> "nan", v |-> 0]
Raise == [k |-> "raise", v |-> 0]

\* The float comparison `x > 0` (False for nan).
GtZeroLoose(x) == (x.k = "num" /\ x.v >= 0) \/ (x.k = "inf" /\ x.v > 0)
GtZero(x) == (x.k = "num" /\ x.v > 0) \/ (x.k = "inf" /\ x.v > 0)

IsFinite(x) == x.k = "num"

\* Python's float(str) on a text of the model's alphabet: surrounding
\* whitespace ignored, an optional sign, then decimal digits, or one of the
\* special literals inf / nan in any letter case; ValueError otherwise.
ParseUnsigned(s, sign) ==
    IF AllDigits(s) THEN Num(sign * DigitsVal(s))
    ELSE IF LowerText(s) = << "i", "n", "f" >> THEN Inf(sign)
    ELSE IF LowerText(s) = << "n", "a", "n" >> THEN NaN
    ELSE Raise

ParseFloat(s) ==
    LET t == Strip(s) IN
    IF t = << >> THEN Raise
    ELSE IF Head(t) = "-" THEN ParseUnsigned(Tail(t), -1)
    ELSE ParseUnsigned(t, 1)

\* pd.isna(value): True for a missing scalar; for a list it returns an array,
\* whose truth value raises ValueError.
IsNa(value) == value.t = "na"

LitNan == << "n", "a", "n" >>

\* The body of _safe_float inside its try block; Raise when it raises.
SafeFloatBody(v, value) ==
    IF value.t \in {"list", "bad"} THEN Raise
    ELSE IF IsNa(value) THEN Num(0)
    ELSE IF v = "app" THEN
        IF value.s = << >> \/ Strip(value.s) = << >> THEN Num(0)
        ELSE LET str_val == Strip(RemoveChar(RemoveChar(value.s, ","), "\""))
             IN  IF str_val = LitNan \/ str_val = << >> THEN Num(0)
                 ELSE ParseFloat(str_val)
    ELSE
        LET str_val == Strip(RemoveChar(value.s, ","))
        IN  IF str_val # << >> /\ str_val # LitNan THEN ParseFloat(str_val)
            ELSE Num(0)

\* _safe_float: the bare except turns every exception into 0.0.
safe_float(v, value) ==
    LET r == SafeFloatBody(v, value)
    IN  IF r.k = "raise" THEN Num(0) ELSE r

----------------------------------------------------------------------------
(* Specification of the numeric coercion alone: a cell is drawn, then      *)
(* _safe_float is applied to it.                                           *)

FloatAlphabet == { "5", "0", "-", ",", " ", "\"", "a", "i", "n", "f", "N" }

FloatTexts == UNION { [1..n -> FloatAlphabet] : n \in 0..MaxLen }

FloatCells == { Str(s) : s \in FloatTexts } \cup { NA, LIST }

Idle ==
    /\ idx = 0
    /\ current_date = None
    /\ processed_data = << >>
    /\ location_columns = << >>
    /\ processed_df = None
    /\ result = None
    /\ errors = 0
    /\ calls = 0
    /\ first_result = None
    /\ raised = FALSE

InitFloat ==
    /\ variant \in Variants
    /\ Idle
    /\ raw_df = [columns |-> << >>, rows |-> << >>]
    /\ pc = "float"
    /\ cell_in \in FloatCells
    /\ float_out = None
    /\ uploaded_file = None
    /\ attempts = << >>

ApplySafeFloat ==
    /\ pc = "float"
    /\ float_out' = safe_float(variant, cell_in)
    /\ pc' = "float_done"
    /\ UNCHANGED << uploaded_file, attempts >>
    /\ UNCHANGED << variant, raw_df, idx, current_date, processed_data,
                    location_columns, processed_df, result, errors, calls,
                    first_result, raised, cell_in >>

NextFloat == ApplySafeFloat

SpecFloat == InitFloat /\ [][NextFloat]_vars

----------------------------------------------------------------------------
(* Row classification: the header/noise test, the date test, the date      *)
(* parse and the product test.                                             *)

\* str(value) of the label cell, then .strip(): raises for an object whose
\* __str__ raises; str(nan) is 'nan'; str([1, 2]) is '[1, 2]'.
LabelText(cell) ==
    IF cell.t = "str" THEN Strip(cell.s)
    ELSE IF cell.t = "na" THEN << "n", "a", "n" >>
    ELSE << "[", "1", ",", " ", "2", "]" >>

\* `not text or text == 'nan'`
EmptyOrNan(text) == text = << >> \/ text = LitNan

\* header_indicators of app.py; the first one is the phrase
\* "al-kammiyya bi-wahdat qiyas al-muntaj".
header_indicators_app ==
    << << "<alkamiya>", " ", "<biwahdat>", " ", "<qiyas>", " ", "<almuntaj>" >>,
       << "C", "o", "l", "u", "m", "n", "0" >>,
       << "<altidad>" >>,
       << "<alkamiya>" >> >>

\* The inline indicator list of simple_inventory_app.py.
header_indicators_simple ==
    << << "<altidad>" >>,
       << "<alkamiya>" >>,
       << "C", "o", "l", "u", "m", "n" >> >>

AnyIndicator(inds, text) == \E i \in 1..Len(inds) : Contains(text, inds[i])

\* _is_header_row of app.py; the inline test of simple_inventory_app.py.
is_header_row(v, text) ==
    IF v = "app"
    THEN ~EmptyOrNan(text) /\ AnyIndicator(header_indicators_app, text)
    ELSE AnyIndicator(header_indicators_simple, text)

\* calendar.month_abbr, lower case (what %b and the first pattern accept).
MonthAbbr ==
    << << "j", "a", "n" >>,
       << "f", "e", "b" >>,
       << "m", "a", "r" >>,
       << "a", "p", "r" >>,
       << "m", "a", "y" >>,
       << "j", "u", "n" >>,
       << "j", "u", "l" >>,
       << "a", "u", "g" >>,
       << "s", "e", "p" >>,
       << "o", "c", "t" >>,
       << "n", "o", "v" >>,
       << "d", "e", "c" >> >>

\* calendar.month_name, lower case (what %B accepts).
MonthFull ==
    << << "j", "a", "n", "u", "a", "r", "y" >>,
       << "f", "e", "b", "r", "u", "a", "r", "y" >>,
       << "m", "a", "r", "c", "h" >>,
       << "a", "p", "r", "i", "l" >>,
       << "m", "a", "y" >>,
       << "j", "u", "n", "e" >>,
       << "j", "u", "l", "y" >>,
       << "a", "u", "g", "u", "s", "t" >>,
       << "s", "e", "p", "t", "e", "m", "b", "e", "r" >>,
       << "o", "c", "t", "o", "b", "e", "r" >>,
       << "n", "o", "v", "e", "m", "b", "e", "r" >>,
       << "d", "e", "c", "e", "m", "b", "e", "r" >> >>

\* The Arabic month names of the third pattern of app.py; of the twelve only
\* yanayir (January) is in the alphabet of the model.
MonthArabic == << << "<yanayir>" >> >>

\* The full month names of the second pattern of simple_inventory_app.py:
\* June to December only.
MonthFullSimple == SubSeq(MonthFull, 6, 12)

\* \s+\d{4} starting at position e.
SpacesThenYear(s, e) ==
    \E k \in (e + 1)..Len(s) :
        /\ \A p \in e..(k - 1) : IsSpace(s[p])
        /\ k + 3 <= Len(s)
        /\ \A p \in k..(k + 3) : IsDigit(s[p])

\* \d{1,2}\s+ ending just before position j.
DayThenSpaces(s, j) ==
    \E i \in 1..(j - 2) :
        /\ IsDigit(s[i])
        /\ \A p \in (i + 1)..(j - 1) : IsSpace(s[p])

\* re.search(r'\d{1,2}\s+(m1|m2|...)\s+\d{4}', s, re.IGNORECASE)
SearchDayMonthYear(s, months) ==
    LET low == LowerText(s) IN
    \E j \in 1..Len(s), m \in 1..Len(months) :
        /\ MatchAt(low, j, months[m])
        /\ DayThenSpaces(s, j)
        /\ SpacesThenYear(s, j + Len(months[m]))

\* re.search(r'(m1|m2|...)\s+\d{4}', s, re.IGNORECASE)
SearchMonthYear(s, months) ==
    LET low == LowerText(s) IN
    \E j \in 1..Len(s), m \in 1..Len(months) :
        /\ MatchAt(low, j, months[m])
        /\ SpacesThenYear(s, j + Len(months[m]))

\* _is_date_row
is_date_row(v, text) ==
    /\ ~EmptyOrNan(text)
    /\ IF v = "app"
       THEN \/ SearchDayMonthYear(text, MonthAbbr)
            \/ SearchMonthYear(text, MonthFull)
            \/ SearchDayMonthYear(text, MonthArabic)
       ELSE \/ SearchDayMonthYear(text, MonthAbbr)
            \/ SearchMonthYear(text, MonthFullSimple)

\* str.split(): the words of s between runs of whitespace.
RECURSIVE FirstWordLen(_)
FirstWordLen(s) ==
    IF s = << >> \/ IsSpace(Head(s)) THEN 0 ELSE 1 + FirstWordLen(Tail(s))

RECURSIVE Words(_)
Words(s) ==
    LET t == LStrip(s) IN
    IF t = << >> THEN << >>
    ELSE LET n == FirstWordLen(t)
         IN  << SubSeq(t, 1, n) >> \o Words(SubSeq(t, n + 1, Len(t)))

\* %d: one or two digits, 1..31.   %Y: exactly four digits, year >= 1.
IsDayWord(w) == AllDigits(w) /\ Len(w) <= 2 /\ DigitsVal(w) \in 1..31
IsYearWord(w) == AllDigits(w) /\ Len(w) = 4 /\ DigitsVal(w) >= 1

MonthIndex(table, w) ==
    IF \E i \in 1..Len(table) : table[i] = LowerText(w)
    THEN CHOOSE i \in 1..Len(table) : table[i] = LowerText(w)
    ELSE 0

IsLeap(y) == (y % 4 = 0 /\ y % 100 # 0) \/ y % 400 = 0

DaysIn(y, m) ==
    IF m = 2 THEN (IF IsLeap(y) THEN 29 ELSE 28)
    ELSE IF m \in {4, 6, 9, 11} THEN 30 ELSE 31

NoDate == [ok |-> FALSE, y |-> 0, m |-> 0, d |-> 0]

MkDateUnchecked(y, m, d) ==
    IF m >= 1 THEN [ok |-> TRUE, y |-> y, m |-> m, d |-> d] ELSE NoDate
MkDate(y, m, d) ==
    IF m >= 1 /\ d <= DaysIn(y, m) THEN [ok |-> TRUE, y |-> y, m |-> m, d |-> d]
    ELSE NoDate

\* date_formats of _parse_date, in the order tried.
date_formats == << "%d %b %Y", "%d %B %Y", "%B %Y", "%b %Y" >>

\* datetime.strptime(t, fmt) for the four formats: the whole text must match,
\* a blank of the format standing for \s+; not ok stands for ValueError.
Strptime(t, fmt) ==
    LET w == Words(t)
        table == IF fmt \in {"%d %b %Y", "%b %Y"} THEN MonthAbbr ELSE MonthFull
    IN  IF w = << >> \/ Len(t) # Len(Strip(t)) THEN NoDate
        ELSE IF fmt \in {"%d %b %Y", "%d %B %Y"} THEN
            IF Len(w) = 3 /\ IsDayWord(w[1]) /\ IsYearWord(w[3])
            THEN MkDate(DigitsVal(w[3]), MonthIndex(table, w[2]), DigitsVal(w[1]))
            ELSE NoDate
        ELSE
            IF Len(w) = 2 /\ IsYearWord(w[2])
            THEN MkDate(DigitsVal(w[2]), MonthIndex(table, w[1]), 1)
            ELSE NoDate

RECURSIVE Pow10(_)
Pow10(n) == IF n = 0 THEN 1 ELSE 10 * Pow10(n - 1)

\* n zero-padded to w digits.
Pad(n, w) == [i \in 1..w |-> Digits[((n \div Pow10(w - i)) % 10) + 1]]

\* parsed.strftime('%Y-%m-%d')
StrftimeYmd(dt) == Pad(dt.y, 4) \o << "-" >> \o Pad(dt.m, 2) \o << "-" >> \o Pad(dt.d, 2)

RECURSIVE TryFormats(_, _, _)
TryFormats(date_string, fmts, i) ==
    IF i > Len(fmts) THEN date_string
    ELSE LET parsed == Strptime(Strip(date_string), fmts[i])
         IN  IF parsed.ok THEN StrftimeYmd(parsed)
             ELSE TryFormats(date_string, fmts, i + 1)

\* _parse_date: the first format that parses decides; the text itself when
\* none does.
parse_date_raw(date_string) == date_string
parse_date(date_string) == TryFormats(date_string, date_formats, 1)

\* re.search(r'\[\d+\]', first_col)
has_product_code(text) ==
    \E i \in 1..Len(text), j \in 1..Len(text) :
        /\ i + 1 < j
        /\ text[i] = "["
        /\ text[j] = "]"
        /\ \A p \in (i + 1)..(j - 1) : IsDigit(text[p])

\* any(U+0600 <= char <= U+06FF for char in first_col)
has_arabic_any(text) == TRUE
has_arabic(text) == \E i \in 1..Len(text) : IsArabic(text[i])

\* any(self._safe_float(val) > 0 for val in row.iloc[1:] if not pd.isna(val)):
\* the cells are visited in order and the scan stops at the first positive
\* one; `not pd.isna(val)` raises ValueError on a list cell.
RECURSIVE HasDataFrom(_, _, _)
HasDataFrom(v, row, i) ==
    IF i > Len(row) THEN "false"
    ELSE IF row[i].t = "list" THEN "raise"
    ELSE IF ~IsNa(row[i]) /\ GtZero(safe_float(v, row[i])) THEN "true"
    ELSE HasDataFrom(v, row, i + 1)

has_data(v, row) == HasDataFrom(v, row, 2)

\* The body of _is_product_row: "true", "false" or "raise".
\* The form of the return expression is that of the file `form`: the AND
\* form of app.py, the OR form of simple_inventory_app.py.
product_test(form, v, row, first_col) ==
    IF EmptyOrNan(first_col) THEN "false"
    ELSE LET code == has_product_code(first_col)
             arabic == has_arabic(first_col)
             data == has_data(v, row)
         IN  IF data = "raise" THEN "raise"
             ELSE IF form = "app"
             THEN (IF (code \/ arabic) /\ data = "true" THEN "true" ELSE "false")
             ELSE (IF code \/ (arabic /\ data = "true") THEN "true" ELSE "false")

\* _is_product_row
is_product_row(v, row, first_col) == product_test(v, v, row, first_col)

----------------------------------------------------------------------------
(* The column mapper.  A column label is a cell whose text is a sequence   *)
(* of atoms; an atom is a sequence of the parts a '/' separates, so that   *)
(* a catalog fragment such as 'WH/<almakhzan alraisa>' is the atom         *)
(* << "WH", "<almakhzan alraisa>" >> and a plain word is << "Qty" >>.      *)
(* Python's `fragment in label` is then: the fragment is an atom of the    *)
(* label (no catalog fragment is a substring of another).                  *)

\* The catalog: `locations` of both files (the same 19 fragments in the same
\* order); name is the display name app.py gives the fragment.
locations ==
    << [key |-> << "POS", "<alsala>" >>, name |-> "<alsala>"],
       [key |-> << "Virtual Locations", "<tadhawwuq>" >>, name |-> "<tadhawwuq>"],
       [key |-> << "Virtual Locations", "<ayyinat>" >>, name |-> "<ayyinat>"],
       [key |-> << "Virtual Locations", "<mustalzamat almabiat waltashghil>" >>,
        name |-> "<mustalzamat almabiat>"],
       [key |-> << "Virtual Locations", "<halik>" >>, name |-> "<halik>"],
       [key |-> << "WH-pr", "<makhzan alintaj>" >>, name |-> "<makhzan al-intaj>"],
       [key |-> << "WH", "<almakhzan alraisa>" >>, name |-> "<almakhzan alraisi>"],
       [key |-> << "cairo", "<makhzan alqahira>" >>, name |-> "<makhzan alqahira>"],
       [key |-> << "other", "<makhzun laday alghayr shaykhun>" >>,
        name |-> "<makhzun laday alghayr>"],
       [key |-> << "sadat", "<makhzan alsadat>" >>, name |-> "<makhzan alsadat>"],
       [key |-> << "wh-p", "<makhzun almuntaj altamm>" >>, name |-> "<almuntaj altamm>"],
       [key |-> << "zagel", "<makhzan zajil>" >>, name |-> "<makhzan zajil>"],
       [key |-> << "<tahwil>", "<almakhzun>" >>, name |-> "<tahwil almakhzun>"],
       [key |-> << "<thallajah>", "<almakhzun>" >>, name |-> "<thallaja almakhzun>"],
       [key |-> << "<haydawi>", "<almakhzun>" >>, name |-> "<haydawi almakhzun>"],
       [key |-> << "<sahil>", "<almakhzun>" >>, name |-> "<sahil almakhzun>"],
       [key |-> << "<shahn>", "<almakhzun>" >>, name |-> "<shahn almakhzun>"],
       [key |-> << "<sabun>", "<almakhzun>" >>, name |-> "<sabun almakhzun>"],
       [key |-> << "<fathi>", "<almakhzun>" >>, name |-> "<fathi almakhzun>"] >>

\* Every location name of either file in code-point order (what sorting the
\* Warehouse / Location column compares).
NameOrder ==
    << "<alsala>", "<almakhzan alraisa>", "<almakhzan alraisi>", "<almakhzun>",
       "<almuntaj altamm>", "<tahwil almakhzun>", "<tadhawwuq>",
       "<thallaja almakhzun>", "<haydawi almakhzun>", "<sahil almakhzun>",
       "<shahn almakhzun>", "<sabun almakhzun>", "<ayyinat>", "<fathi almakhzun>",
       "<makhzan al-intaj>", "<makhzan alintaj>", "<makhzan alsadat>",
       "<makhzan alqahira>", "<makhzan zajil>", "<makhzun almuntaj altamm>",
       "<makhzun laday alghayr>", "<makhzun laday alghayr shaykhun>",
       "<mustalzamat almabiat>", "<mustalzamat almabiat waltashghil>", "<halik>" >>

NameRankTable ==
    [n \in { NameOrder[i] : i \in 1..Len(NameOrder) } |->
        CHOOSE i \in 1..Len(NameOrder) : NameOrder[i] = n]
NameRank(n) == NameRankTable[n]

\* _clean_location_name: location.split('/')[-1] when it has a '/'.
clean_location_name(key) == IF Len(key) > 1 THEN key[Len(key)] ELSE key[1]

\* The display name a catalog entry maps to in each file.
CanonicalName(v, e) ==
    IF v = "app" THEN locations[e].name ELSE clean_location_name(locations[e].key)

\* `location_key in col_str`
KeyInLabel(key, col) == \E a \in 1..Len(col.s) : col.s[a] = key

\* The inner loop with its break: the first catalog entry, in catalog order,
\* whose fragment the label contains; 0 when none does.
FirstEntryIn(col) ==
    IF \E e \in 1..Len(locations) : KeyInLabel(locations[e].key, col)
    THEN CHOOSE e \in 1..Len(locations) :
            /\ KeyInLabel(locations[e].key, col)
            /\ \A f \in 1..(e - 1) : ~KeyInLabel(locations[f].key, col)
    ELSE 0

\* dict[name] = cols: an existing key keeps its place, a new one goes last.
DictSetKeepFirst(map, name, cols) ==
    IF \E k \in 1..Len(map) : map[k].name = name THEN map
    ELSE Append(map, [name |-> name, cols |-> cols])
DictSet(map, name, cols) ==
    IF \E k \in 1..Len(map) : map[k].name = name
    THEN [k \in 1..Len(map) |->
            IF map[k].name = name THEN [name |-> name, cols |-> cols] ELSE map[k]]
    ELSE Append(map, [name |-> name, cols |-> cols])

\* Whether the assignment at column i (0-based) of n columns is made, and what
\* is stored: app.py stores i; simple_inventory_app.py stores (i, i + 1), the
\* count and the quantity index, only when i + 1 < len(columns).
StoresEntryAlways(v, i, n) == TRUE
StoresEntry(v, i, n) == v = "app" \/ i + 1 < n
EntryColsSwapped(v, i) == IF v = "app" THEN << i >> ELSE << i + 1, i >>
EntryCols(v, i) == IF v = "app" THEN << i >> ELSE << i, i + 1 >>

\* One pass of the outer loop, from column i (0-based) on.
RECURSIVE MapFrom(_, _, _, _)
MapFrom(v, columns, i, map) ==
    IF i >= Len(columns) THEN [ok |-> TRUE, map |-> map]
    ELSE LET col == columns[i + 1]
             e == FirstEntryIn(col)
         IN  IF col.t = "bad" THEN [ok |-> FALSE, map |-> << >>]
             ELSE IF e # 0 /\ StoresEntry(v, i, Len(columns))
             THEN MapFrom(v, columns, i + 1,
                          DictSet(map, CanonicalName(v, e), EntryCols(v, i)))
             ELSE MapFrom(v, columns, i + 1, map)

\* _map_location_columns (app.py) / _create_location_mapping
\* (simple_inventory_app.py); not ok when str(col) raises.
map_location_columns(v, columns) == MapFrom(v, columns, 0, << >>)

----------------------------------------------------------------------------
(* Extraction, cleaning and sorting.  A record is                          *)
(* [Product, Date, Location, Quantity, Count, row]: Location is the        *)
(* 'Warehouse' field of app.py and the 'Location' field of                 *)
(* simple_inventory_app.py; Count is NoCount in app.py, which has no such  *)
(* field; row is a history field, the position of the source row.          *)

NoCount == [k |-> "absent", v |-> 0]

\* 'Unknown' (simple_inventory_app.py) and "ghayr muhaddad" (app.py).
SentinelDate(v) ==
    IF v = "app" THEN << "<ghayr>", " ", "<muhaddad>" >>
    ELSE << "U", "n", "k", "n", "o", "w", "n" >>

\* `current_date or <sentinel>`
DateOrSentinelRaw(v, cd) == cd.s
DateOrSentinel(v, cd) ==
    IF cd = None \/ cd.s = << >> THEN SentinelDate(v) ELSE cd.s

\* row.iloc[i] coerced when i < len(row); the initial 0 otherwise.
CellValueAbs(v, row, i) ==
    IF i < Len(row)
    THEN LET x == safe_float(v, row[i + 1])
         IN  IF x.k = "num" /\ x.v < 0 THEN Num(0 - x.v) ELSE x
    ELSE Num(0)
CellValueNext(v, row, i) ==
    IF i + 1 < Len(row) THEN safe_float(v, row[i + 2]) ELSE Num(0)
CellValue(v, row, i) ==
    IF i < Len(row) THEN safe_float(v, row[i + 1]) ELSE Num(0)

HasStockAlways(v, count, quantity) == TRUE

\* The test under which a record is emitted and under which the cleaning pass
\* keeps it: quantity > 0 in app.py, count > 0 or quantity > 0 in
\* simple_inventory_app.py.
HasStock(v, count, quantity) ==
    IF v = "app" THEN GtZero(quantity)
    ELSE GtZero(count) \/ GtZero(quantity)

\* The loop over the location map, from entry k on.
RECURSIVE ExtractFrom(_, _, _, _, _, _)
ExtractFrom(v, row, cd, map, k, rowid) ==
    IF k > Len(map) THEN << >>
    ELSE LET e == map[k]
             rest == ExtractFrom(v, row, cd, map, k + 1, rowid)
         IN  IF v = "app" THEN
                 LET col_index == e.cols[1]
                     quantity == CellValue(v, row, col_index)
                 IN  IF col_index < Len(row) /\ HasStock(v, NoCount, quantity)
                     THEN << [Product |-> LabelText(row[1]),
                              Date |-> DateOrSentinel(v, cd),
                              Location |-> e.name,
                              Quantity |-> quantity,
                              Count |-> NoCount,
                              row |-> rowid] >> \o rest
                     ELSE rest
             ELSE
                 LET count_val == CellValue(v, row, e.cols[1])
                     quantity_val == CellValue(v, row, e.cols[2])
                 IN  IF HasStock(v, count_val, quantity_val)
                     THEN << [Product |-> LabelText(row[1]),
                              Date |-> DateOrSentinel(v, cd),
                              Location |-> e.name,
                              Quantity |-> quantity_val,
                              Count |-> count_val,
                              row |-> rowid] >> \o rest
                     ELSE rest

\* _extract_all_warehouse_data / _extract_product_data
ExtractUnguarded(v, row, cd, map, rowid) ==
    IF \/ EmptyOrNan(LabelText(row[1]))
       \/ \E k \in 1..Len(map) :
              \E c \in 1..Len(map[k].cols) : map[k].cols[c] >= Len(row)
    THEN << >>
    ELSE ExtractFrom(v, row, cd, map, 1, rowid)
extract_product_data(v, row, cd, map, rowid) ==
    IF EmptyOrNan(LabelText(row[1])) THEN << >>
    ELSE ExtractFrom(v, row, cd, map, 1, rowid)

\* The sort key (Date, Product, Location), compared as Python strings.
KeyNotGreater(a, b) ==
    IF a.Date # b.Date THEN TextLess(a.Date, b.Date)
    ELSE IF a.Product # b.Product THEN TextLess(a.Product, b.Product)
    ELSE NameRank(a.Location) <= NameRank(b.Location)
KeyLess(a, b) ==
    IF a.Date # b.Date THEN TextLess(a.Date, b.Date)
    ELSE IF a.Product # b.Product THEN TextLess(a.Product, b.Product)
    ELSE NameRank(a.Location) < NameRank(b.Location)

\* r put into the sorted sequence s behind every record not greater than it.
RECURSIVE InsertSorted(_, _)
InsertSorted(s, r) ==
    IF s = << >> THEN << r >>
    ELSE IF KeyLess(r, Head(s)) THEN << r >> \o s
    ELSE << Head(s) >> \o InsertSorted(Tail(s), r)

\* DataFrame.sort_values over three columns: a stable sort.
RECURSIVE SortRecords(_)
SortRecords(s) ==
    IF s = << >> THEN << >>
    ELSE InsertSorted(SortRecords(SubSeq(s, 1, Len(s) - 1)), s[Len(s)])

RECURSIVE FilterStockQuantity(_, _)
FilterStockQuantity(v, s) ==
    IF s = << >> THEN << >>
    ELSE IF GtZero(Head(s).Quantity)
    THEN << Head(s) >> \o FilterStockQuantity(v, Tail(s))
    ELSE FilterStockQuantity(v, Tail(s))

\* The boolean-mask filter of the cleaning pass.
RECURSIVE FilterStock(_, _)
FilterStock(v, s) ==
    IF s = << >> THEN << >>
    ELSE IF HasStock(v, Head(s).Count, Head(s).Quantity)
    THEN << Head(s) >> \o FilterStock(v, Tail(s))
    ELSE FilterStock(v, Tail(s))

StripProducts(s) ==
    [i \in 1..Len(s) |-> [s[i] EXCEPT !.Product = Strip(s[i].Product)]]

\* _clean_and_sort_data / _clean_data
clean_and_sort_data(v, s) == SortRecords(StripProducts(FilterStock(v, s)))

----------------------------------------------------------------------------
(* The sheets drawn for process_data.                                      *)

Txt15Jan2024 == << "1", "5", " ", "J", "a", "n", " ", "2", "0", "2", "4" >>
TxtJune2024 == << "J", "u", "n", "e", " ", "2", "0", "2", "4" >>
Txt15Yanayir2024 == << "1", "5", " ", "<yanayir>", " ", "2", "0", "2", "4" >>
TxtCaption == << " ", "<alkamiya>" >>
TxtProduct101 == << "[", "1", "0", "1", "]", " ", "<muntaj>" >>
TxtProduct102 == << "[", "1", "0", "2", "]", " ", "A" >>
TxtProduct103 == << "[", "1", "0", "3", "]", " ", "B" >>
TxtMuntaj == << "<muntaj>" >>

Cell50 == Str(<< "5", "0" >>)
Cell5 == Str(<< "5" >>)
Cell0 == Str(<< "0" >>)
CellNeg5 == Str(<< "-", "5" >>)

\* The rows a sheet is made of: a label and two data cells (a sheet of two
\* columns keeps the label and the last cell).
SampleRows ==
    << << Str(Txt15Jan2024), NA, NA >>,
       << Str(TxtJune2024), NA, NA >>,
       << Str(Txt15Yanayir2024), NA, NA >>,
       << Str(TxtCaption), NA, NA >>,
       << NA, NA, NA >>,
       << Str(TxtProduct101), Cell5, Cell50 >>,
       << Str(TxtProduct102), Cell5, Cell0 >>,
       << Str(TxtProduct103), Cell0, CellNeg5 >>,
       << Str(TxtMuntaj), Cell0, LIST >>,
       << BAD, Cell5, Cell50 >> >>

KeyMain == << "WH", "<almakhzan alraisa>" >>
ColProduct == Str(<< << "Product" >> >>)
ColQty == Str(<< << "Qty" >> >>)
ColMain == Str(<< KeyMain >>)
ColMainQty == Str(<< KeyMain, << "Qty" >> >>)

\* The header rows drawn: the two-column sheet of the documented scenario, a
\* sheet with a paired count and quantity column, and one whose second column
\* label cannot be printed.
SampleHeaders ==
    << << ColProduct, ColMainQty >>,
       << ColProduct, ColMain, ColQty >>,
       << ColProduct, BAD, ColQty >> >>

\* A DataFrame is rectangular: every row has as many cells as the header.
FitRow(r, width) == IF width = 3 THEN r ELSE << r[1], r[3] >>

\* The if-cascade of the loop body: what happens to one row.
ClassifyProductFirst(v, row) ==
    IF row[1].t = "bad" THEN "label_raises"
    ELSE LET text == LabelText(row[1]) IN
         IF is_header_row(v, text) THEN "skip"
         ELSE IF is_product_row(v, row, text) = "raise" THEN "product_raises"
         ELSE IF is_product_row(v, row, text) = "true" THEN "product"
         ELSE IF is_date_row(v, text) THEN "date"
         ELSE "ignore"
Classify(v, row) ==
    IF row[1].t = "bad" THEN "label_raises"
    ELSE LET text == LabelText(row[1]) IN
         IF is_header_row(v, text) THEN "skip"
         ELSE IF is_date_row(v, text) THEN "date"
         ELSE IF is_product_row(v, row, text) = "raise" THEN "product_raises"
         ELSE IF is_product_row(v, row, text) = "true" THEN "product"
         ELSE "ignore"

\* Labels in which two tests meet: a caption that also holds a date, and a
\* product code followed by a date.
TxtCaptionDate ==
    << "<alkamiya>", " ", "1", "5", " ", "J", "a", "n", " ", "2", "0", "2", "4" >>
TxtCodeDate ==
    << "[", "1", "0", "1", "]", " ", "1", "5", " ", "J", "a", "n", " ",
       "2", "0", "2", "4" >>
Txt31Feb2024 == << "3", "1", " ", "F", "e", "b", " ", "2", "0", "2", "4" >>
TxtMay2024 == << "m", "a", "y", " ", "2", "0", "2", "4" >>
TxtTotal == << "T", "o", "t", "a", "l" >>
TxtProduct104 == << "[", "1", "0", "4", "]", " ", "C" >>
TxtProduct105 == << "[", "1", "0", "5", "]", " ", "D", " " >>

\* The rows of the sheets drawn for the corner cases of the classifier and
\* of the extraction: labels two tests accept, and negative cells next to
\* positive ones.
EdgeRows ==
    << << Str(Txt15Jan2024), NA, NA >>,
       << Str(Txt15Yanayir2024), NA, NA >>,
       << Str(Txt31Feb2024), NA, NA >>,
       << Str(TxtMay2024), NA, NA >>,
       << Str(TxtCaptionDate), Cell5, Cell50 >>,
       << Str(TxtCodeDate), Cell5, Cell50 >>,
       << Str(TxtProduct101), Cell5, Cell50 >>,
       << Str(TxtProduct104), Cell5, CellNeg5 >>,
       << Str(TxtProduct105), CellNeg5, Cell5 >>,
       << Str(TxtProduct102), Cell0, Cell0 >>,
       << Str(TxtTotal), Cell5, Cell50 >>,
       << NA, Cell5, Cell50 >>,
       << Str(TxtMuntaj), Cell0, LIST >>,
       << BAD, Cell5, Cell50 >> >>

SheetRows ==
    { FitRow(SampleRows[i], w) : i \in 1..Len(SampleRows), w \in {2, 3} }
    \cup { FitRow(EdgeRows[i], w) : i \in 1..Len(EdgeRows), w \in {2, 3} }

\* Classify, tabulated once over the rows the sheets are made of.
ClassOf == [v \in Variants |-> [r \in SheetRows |-> Classify(v, r)]]

EdgeSheets ==
    { [columns |-> SampleHeaders[h],
       rows |-> [i \in DOMAIN pick |->
                    FitRow(EdgeRows[pick[i]], Len(SampleHeaders[h]))]] :
        h \in 1..Len(SampleHeaders),
        pick \in UNION { [1..n -> 1..Len(EdgeRows)] : n \in 0..MaxEdgeRows } }

Sheets ==
    { [columns |-> SampleHeaders[h],
       rows |-> [i \in DOMAIN pick |->
                    FitRow(SampleRows[pick[i]], Len(SampleHeaders[h]))]] :
        h \in 1..Len(SampleHeaders),
        pick \in UNION { [1..n -> 1..Len(SampleRows)] : n \in 0..MaxRows } }

----------------------------------------------------------------------------
(* process_data as a state machine: the call begins (the column mapper     *)
(* runs), each iteration of the row loop classifies one row, and the call  *)
(* ends either at the end of the loop (cleaning and sorting included) or   *)
(* in the except clause.                                                   *)

Init ==
    /\ variant \in Variants
    /\ raw_df \in Sheets
    /\ pc = "idle"
    /\ idx = 0
    /\ current_date = None
    /\ processed_data = << >>
    /\ location_columns = << >>
    /\ processed_df = None
    /\ result = None
    /\ errors = 0
    /\ calls = 0
    /\ first_result = None
    /\ raised = FALSE
    /\ cell_in = None
    /\ float_out = None
    /\ uploaded_file = None
    /\ attempts = << >>

\* What the first call returned, kept for comparison with later calls.
Remember(ret) == IF calls = 0 THEN ret ELSE first_result

\* What the except clause returns when `data` had been accumulated:
\* `return pd.DataFrame()`.
ReturnedOnErrorPartial(v, data) == clean_and_sort_data(v, data)
ReturnedOnError(v, data) == << >>

\* `except Exception as e: st.error(...); return pd.DataFrame()`
ExceptClause ==
    /\ errors' = errors + 1
    /\ result' = ReturnedOnError(variant, processed_data)
    /\ raised' = TRUE
    /\ pc' = "done"
    /\ calls' = calls + 1
    /\ first_result' = Remember(result')

\* The value process_data starts its running date with.
InitialDateKept(cd) == cd
InitialDate(cd) == None

CanBegin == pc \in {"idle", "done"} /\ calls < MaxCalls

\* process_data up to the row loop: the locals are initialised and the
\* column mapper runs.
BeginProcess ==
    /\ CanBegin
    /\ map_location_columns(variant, raw_df.columns).ok
    /\ processed_data' = << >>
    /\ current_date' = InitialDate(current_date)
    /\ location_columns' = map_location_columns(variant, raw_df.columns).map
    /\ idx' = 1
    /\ result' = None
    /\ raised' = FALSE
    /\ pc' = "loop"
    /\ UNCHANGED << uploaded_file, attempts >>
    /\ UNCHANGED << variant, raw_df, processed_df, errors, calls, first_result,
                    cell_in, float_out >>

\* str(col) raises inside the column mapper: the exception reaches the except
\* clause of process_data before any row is read.
MapRaises ==
    /\ CanBegin
    /\ ~map_location_columns(variant, raw_df.columns).ok
    /\ processed_data' = << >>
    /\ current_date' = InitialDate(current_date)
    /\ idx' = 0
    /\ ExceptClause
    /\ UNCHANGED << uploaded_file, attempts >>
    /\ UNCHANGED << variant, raw_df, location_columns, processed_df, cell_in,
                    float_out >>

InLoop == pc = "loop" /\ idx <= Len(raw_df.rows)
Row == raw_df.rows[idx]
first_col == LabelText(Row[1])
RowIs(class) == InLoop /\ ClassOf[variant][Row] = class

\* current_date after a date-marker row.
CommitDateKeep(cd, text) == cd
CommitDate(cd, text) == Str(parse_date(text))

\* current_date after a skipped header/noise row.
AfterSkipReset(cd) == None
AfterSkip(cd) == cd

\* str(row.iloc[0]) raises: the exception leaves the loop.
LabelRaises ==
    /\ RowIs("label_raises")
    /\ ExceptClause
    /\ UNCHANGED << uploaded_file, attempts >>
    /\ UNCHANGED << variant, raw_df, idx, current_date, processed_data,
                    location_columns, processed_df, cell_in, float_out >>

\* `if <header test>: continue`
SkipHeaderRow ==
    /\ RowIs("skip")
    /\ idx' = idx + 1
    /\ current_date' = AfterSkip(current_date)
    /\ UNCHANGED << uploaded_file, attempts >>
    /\ UNCHANGED << variant, raw_df, pc, processed_data, location_columns,
                    processed_df, result, errors, calls, first_result, raised,
                    cell_in, float_out >>

\* `if self._is_date_row(first_col): current_date = ...; continue`
DateRow ==
    /\ RowIs("date")
    /\ current_date' = CommitDate(current_date, first_col)
    /\ idx' = idx + 1
    /\ UNCHANGED << uploaded_file, attempts >>
    /\ UNCHANGED << variant, raw_df, pc, processed_data, location_columns,
                    processed_df, result, errors, calls, first_result, raised,
                    cell_in, float_out >>

\* The product test raises (a list cell met before any positive cell): the
\* exception leaves the loop.
ProductTestRaises ==
    /\ RowIs("product_raises")
    /\ ExceptClause
    /\ UNCHANGED << uploaded_file, attempts >>
    /\ UNCHANGED << variant, raw_df, idx, current_date, processed_data,
                    location_columns, processed_df, cell_in, float_out >>

\* `if self._is_product_row(row, first_col): processed_data.extend(...)`
ProductRow ==
    /\ RowIs("product")
    /\ processed_data' = processed_data \o
           extract_product_data(variant, Row, current_date, location_columns, idx)
    /\ idx' = idx + 1
    /\ UNCHANGED << uploaded_file, attempts >>
    /\ UNCHANGED << variant, raw_df, pc, current_date, location_columns,
                    processed_df, result, errors, calls, first_result, raised,
                    cell_in, float_out >>

\* A row no test accepts: nothing happens.
IgnoreRow ==
    /\ RowIs("ignore")
    /\ idx' = idx + 1
    /\ UNCHANGED << uploaded_file, attempts >>
    /\ UNCHANGED << variant, raw_df, pc, current_date, processed_data,
                    location_columns, processed_df, result, errors, calls,
                    first_result, raised, cell_in, float_out >>

\* What the call returns at the end of the loop.
ReturnedAtEnd(v, data) ==
    IF data # << >> THEN clean_and_sort_data(v, data) ELSE << >>

\* The end of the loop: `if processed_data:` the table is built, cleaned,
\* sorted and returned; otherwise an empty table is returned.
Finish ==
    /\ pc = "loop"
    /\ idx > Len(raw_df.rows)
    /\ result' = ReturnedAtEnd(variant, processed_data)
    /\ processed_df' = IF processed_data # << >>
                       THEN clean_and_sort_data(variant, processed_data)
                       ELSE processed_df
    /\ pc' = "done"
    /\ calls' = calls + 1
    /\ first_result' = Remember(result')
    /\ UNCHANGED << uploaded_file, attempts >>
    /\ UNCHANGED << variant, raw_df, idx, current_date, processed_data,
                    location_columns, errors, raised, cell_in, float_out >>

Next ==
    \/ BeginProcess
    \/ MapRaises
    \/ LabelRaises
    \/ SkipHeaderRow
    \/ DateRow
    \/ ProductTestRaises
    \/ ProductRow
    \/ IgnoreRow
    \/ Finish

Spec == Init /\ [][Next]_vars

\* process_data on the sheets of corner cases: the same processor, the same
\* steps.
InitEdge ==
    /\ variant \in Variants
    /\ raw_df \in EdgeSheets
    /\ pc = "idle"
    /\ Idle
    /\ cell_in = None
    /\ float_out = None
    /\ uploaded_file = None
    /\ attempts = << >>

SpecEdge == InitEdge /\ [][Next]_vars

----------------------------------------------------------------------------
(* Specification of the column mapper alone: a header row is drawn, then   *)
(* the mapper is applied to it.                                            *)

\* The catalog entries the drawn headers use: the main warehouse, two of the
\* entries whose fragments end in '/<almakhzun>', the sales floor, samples.
FragPool == << 7, 13, 14, 1, 3 >>

\* The labels drawn: a plain label, a label holding one fragment, and a label
\* holding two different fragments (in the order of the pool: only the
\* order of the catalog matters to the mapper).
MapLabels ==
    { ColQty }
    \cup { Str(<< locations[FragPool[i]].key >>) : i \in 1..MaxFrag }
    \cup { Str(<< locations[FragPool[p[1]]].key, locations[FragPool[p[2]]].key >>) :
              p \in { q \in (1..MaxFrag) \X (1..MaxFrag) : q[1] < q[2] } }

MapHeaders == UNION { [1..n -> MapLabels] : n \in 1..MaxCols }

InitMap ==
    /\ variant \in Variants
    /\ Idle
    /\ raw_df \in { [columns |-> h, rows |-> << >>] : h \in MapHeaders }
    /\ pc = "map"
    /\ cell_in = None
    /\ float_out = None
    /\ uploaded_file = None
    /\ attempts = << >>

ApplyMap ==
    /\ pc = "map"
    /\ location_columns' = map_location_columns(variant, raw_df.columns).map
    /\ pc' = "map_done"
    /\ UNCHANGED << uploaded_file, attempts >>
    /\ UNCHANGED << variant, raw_df, idx, current_date, processed_data,
                    processed_df, result, errors, calls, first_result, raised,
                    cell_in, float_out >>

NextMap == ApplyMap

SpecMap == InitMap /\ [][NextMap]_vars

----------------------------------------------------------------------------
(* The properties.  What a sheet is expected to yield is written down here *)
(* from the sheet itself (literal labels, literal dates, literal numbers), *)
(* not through the operators above.                                        *)

Rows == raw_df.rows
NRows == Len(raw_df.rows)
Cols == raw_df.columns
NCols == Len(raw_df.columns)

Iso15Jan2024 == << "2", "0", "2", "4", "-", "0", "1", "-", "1", "5" >>
Iso1June2024 == << "2", "0", "2", "4", "-", "0", "6", "-", "0", "1" >>

\* The label cells that are date markers: '15 Jan 2024' and 'June 2024' in
\* both files, '15 <yanayir> 2024' in app.py only.
IsMarkerCell(v, cell) ==
    /\ cell.t = "str"
    /\ \/ cell.s \in { Txt15Jan2024, TxtJune2024 }
       \/ v = "app" /\ cell.s = Txt15Yanayir2024

\* What such a marker commits: the ISO date, or the raw text when no format
\* parses it.
MarkerDate(cell) ==
    IF cell.s = Txt15Jan2024 THEN Iso15Jan2024
    ELSE IF cell.s = TxtJune2024 THEN Iso1June2024
    ELSE cell.s

MarkersBefore(i) == { j \in 1..(i - 1) : IsMarkerCell(variant, Rows[j][1]) }

Largest(S) == CHOOSE x \in S : \A y \in S : y <= x
Smallest(S) == CHOOSE x \in S : \A y \in S : x <= y

\* The date a record from row i must carry.
DateFor(i) ==
    IF MarkersBefore(i) = { }
    THEN (IF variant = "app" THEN << "<ghayr>", " ", "<muhaddad>" >>
          ELSE << "U", "n", "k", "n", "o", "w", "n" >>)
    ELSE MarkerDate(Rows[Largest(MarkersBefore(i))][1])

Positive(x) == (x.k = "num" /\ x.v > 0) \/ (x.k = "inf" /\ x.v = 1)

\* C1 (date persistence): every record, while it is accumulated and in the
\* returned table, carries the date committed by the nearest date-marker row
\* before its source row, or the sentinel date when no date-marker row
\* precedes it; never the date of a later marker.
C1_DatePersistence ==
    /\ pc \in {"loop", "done"} =>
          \A k \in 1..Len(processed_data) :
              processed_data[k].Date = DateFor(processed_data[k].row)
    /\ pc = "done" =>
          \A k \in 1..Len(result) : result[k].Date = DateFor(result[k].row)

\* C1 witness: two different date markers, then a product row whose record
\* is returned with the date of the second marker.
C1_Witness ==
    /\ pc = "done"
    /\ NRows = 3
    /\ IsMarkerCell(variant, Rows[1][1])
    /\ IsMarkerCell(variant, Rows[2][1])
    /\ Rows[1][1] # Rows[2][1]
    /\ \E k \in 1..Len(result) :
          result[k].row = 3 /\ result[k].Date = MarkerDate(Rows[2][1])

FragmentIn(e, i) == \E a \in 1..Len(Cols[i + 1].s) : Cols[i + 1].s[a] = locations[e].key

ColumnsWith(e) == { i \in 0..(NCols - 1) : FragmentIn(e, i) }

Entries(n) == { k \in 1..Len(location_columns) : location_columns[k].name = n }

EntriesIn(i) == { e \in 1..Len(locations) : FragmentIn(e, i) }

\* The name column i (0-based) is attributed to: that of the first catalog
\* entry, in catalog order, whose fragment the label holds; "" when the label
\* holds no fragment or, in simple_inventory_app.py, the column is the last.
AttributedName(i) ==
    IF EntriesIn(i) = { } \/ (variant = "simple" /\ i + 1 >= NCols) THEN ""
    ELSE IF variant = "app" THEN locations[Smallest(EntriesIn(i))].name
    ELSE locations[Smallest(EntriesIn(i))].key[2]

FragmentsFound == { e \in 1..Len(locations) : ColumnsWith(e) # { } }

\* A header in which no label holds two fragments and the last label holds
\* none: every fragment found is then due an entry in both files.
PlainHeader ==
    /\ \A i \in 0..(NCols - 1) : Cardinality({ e \in FragmentsFound : FragmentIn(e, i) }) <= 1
    /\ \A e \in FragmentsFound : ~FragmentIn(e, NCols - 1)

\* C4 (completeness of the map): the map has exactly one entry for each
\* catalog fragment that occurs in a header label, so as many entries as
\* fragments found.  Stated for plain headers, where it is least demanding.
C4_OneEntryPerFragment ==
    (pc = "map_done" /\ PlainHeader) =>
        /\ Len(location_columns) = Cardinality(FragmentsFound)
        /\ \A e \in FragmentsFound :
              Cardinality(Entries(CanonicalName(variant, e))) = 1

\* C5 (idempotence): a later call of process_data on the same processor
\* returns what the first call, made on the fresh processor, returned.
C5_Idempotent ==
    (pc = "done" /\ calls >= 2) => result = first_result

\* C5 witness: a second call ends with records, after a first call that left
\* a table, a map and a running date behind.
C5_Witness ==
    /\ pc = "done"
    /\ calls = 2
    /\ Len(result) >= 1
    /\ current_date # None
    /\ location_columns # << >>

\* The sheet of the documented scenario: a label column and one column whose
\* label holds a fragment, a parseable date marker, then product rows with a
\* bracketed code whose value is 50 or 0.
ScenarioSheet ==
    /\ Cols = << ColProduct, ColMainQty >>
    /\ NRows >= 2
    /\ Rows[1] \in { << Str(Txt15Jan2024), NA >>, << Str(TxtJune2024), NA >> }
    /\ \A i \in 2..NRows :
          Rows[i] \in { << Str(TxtProduct101), Cell50 >>, << Str(TxtProduct102), Cell0 >> }

RecordsOf(i) == { k \in 1..Len(result) : result[k].row = i }

\* One record per product row with the value 50, none for a row with 0.
ScenarioResult(name) ==
    /\ RecordsOf(1) = { }
    /\ \A i \in 2..NRows :
          IF Rows[i][2] = Cell50
          THEN /\ Cardinality(RecordsOf(i)) = 1
               /\ \A k \in RecordsOf(i) :
                     /\ result[k].Product = Rows[i][1].s
                     /\ result[k].Date = MarkerDate(Rows[1][1])
                     /\ result[k].Location = name
                     /\ result[k].Quantity = Num(50)
          ELSE RecordsOf(i) = { }

\* C6 as claimed (the scenario, in both files): the scenario sheet yields one
\* record per positive product row and none for a zero row.
C6_Scenario ==
    (pc = "done" /\ ScenarioSheet) =>
        ScenarioResult(IF variant = "app" THEN "<almakhzan alraisi>"
                       ELSE "<almakhzan alraisa>")

\* C6 as amended: app.py yields one record per positive product row and none
\* for a zero row; simple_inventory_app.py yields no record at all, the
\* fragment being in the last column.
C6_ScenarioApp ==
    (pc = "done" /\ ScenarioSheet) =>
        IF variant = "app" THEN ScenarioResult("<almakhzan alraisi>")
        ELSE result = << >>

\* C6 witness: app.py has returned one record for a scenario sheet with a
\* positive and a zero product row.
C6_Witness ==
    /\ pc = "done"
    /\ variant = "app"
    /\ ScenarioSheet
    /\ \E i, j \in 2..NRows : Rows[i][2] = Cell50 /\ Rows[j][2] = Cell0
    /\ Len(result) = 1

\* C7 (frame condition): inside the row loop current_date changes only on a
\* date-marker row; skipped, product and ignored rows, the end of the loop
\* and an exception leave it as it was.
C7_DateFrame ==
    [][ (pc = "loop" /\ current_date' # current_date) =>
            (idx <= NRows /\ IsMarkerCell(variant, Rows[idx][1])) ]_vars

\* C7 witness: a caption row in the middle of the sheet has been skipped and
\* the date of the marker before it is still the running date.
C7_Witness ==
    /\ pc = "loop"
    /\ idx = 3
    /\ IsMarkerCell(variant, Rows[1][1])
    /\ Rows[2][1] = Str(TxtCaption)
    /\ current_date = Str(MarkerDate(Rows[1][1]))

\* C8 (row-level containment): a failure in one row never aborts the batch,
\* so every record accumulated from the other rows is in the returned table.
C8_RowContainment ==
    pc = "done" =>
        \A k \in 1..Len(processed_data) :
            \E j \in 1..Len(result) : result[j] = processed_data[k]

\* C9 (file-level failure): a call that ends in the except clause reports one
\* error and returns the empty table, whatever had been accumulated; a call
\* that does not, reports none.
C9_FileLevel ==
    pc = "done" =>
        IF raised THEN result = << >> /\ errors = calls
        ELSE errors = 0

\* C9 witness: the exception came at a row after records had been accumulated
\* and the empty table was returned.
C9_Witness ==
    /\ pc = "done"
    /\ raised
    /\ idx >= 2
    /\ processed_data # << >>
    /\ result = << >>
    /\ errors = 1

IsBlankText(s) == \A i \in 1..Len(s) : s[i] = " "

\* C10 (totality of the coercion): _safe_float never raises, maps a missing,
\* empty or blank cell to 0.0 and always returns a finite number.
C10_Totality ==
    pc = "float_done" =>
        /\ float_out.k = "num"
        /\ (cell_in.t = "na" \/ (cell_in.t = "str" /\ IsBlankText(cell_in.s))) =>
              float_out = Num(0)

\* The text with every comma and every quote character taken out and the
\* surrounding blanks trimmed.
IsSeparator(c) == c = "," \/ c = "\""
Unseparated(s) == SelectSeq(s, LAMBDA c : ~IsSeparator(c))
Trimmed(s) ==
    IF \A i \in 1..Len(s) : s[i] = " " THEN << >>
    ELSE LET first == Smallest({ i \in 1..Len(s) : s[i] # " " })
             last == Largest({ i \in 1..Len(s) : s[i] # " " })
         IN  SubSeq(s, first, last)
IsNumeral(s) == s # << >> /\ \A i \in 1..Len(s) : s[i] \in { "0", "5" }

\* C11 (normalisation before parsing): a text that is a numeral once its
\* commas and quote characters are removed and it is trimmed coerces to the
\* number the bare numeral stands for, in both files.
C11_Normalisation ==
    (pc = "float_done" /\ cell_in.t = "str"
        /\ IsNumeral(Trimmed(Unseparated(cell_in.s)))) =>
        float_out = Num(DigitsVal(Trimmed(Unseparated(cell_in.s))))

\* The location name catalog entry e stands for: the display name in app.py,
\* the text after the '/' in simple_inventory_app.py.
NameOfFragment(e) ==
    IF variant = "app" THEN locations[e].name ELSE locations[e].key[2]

\* C12 (absent location): a catalog fragment that occurs in no header label
\* has no entry under its location name in the map.
C12_AbsentFragment ==
    pc = "map_done" =>
        \A e \in 1..Len(locations) :
            ColumnsWith(e) = { } => Entries(NameOfFragment(e)) = { }

\* C13 (uniqueness): the returned table never holds two records with the
\* same product, date and location.
C13_Unique ==
    pc = "done" =>
        \A j, k \in 1..Len(result) :
            (/\ result[j].Product = result[k].Product
             /\ result[j].Date = result[k].Date
             /\ result[j].Location = result[k].Location) => j = k

\* The labels of the plain product rows of the sheets: a bracketed code and a
\* name, no marker and no date.
ProductLabels ==
    { TxtProduct101, TxtProduct102, TxtProduct103, TxtProduct104, TxtProduct105 }

IsProductLabel(cell) == cell.t = "str" /\ cell.s \in ProductLabels

\* The 0-based index of the quantity cell and of the count cell of map entry
\* k: app.py has one index, simple_inventory_app.py the pair (count, quantity).
QuantityIndex(k) ==
    IF variant = "app" THEN location_columns[k].cols[1]
    ELSE location_columns[k].cols[2]
CountIndex(k) == location_columns[k].cols[1]

\* The records of the returned table that come from row i and carry the name
\* of map entry k.
RecordsAt(i, k) ==
    { j \in 1..Len(result) :
        result[j].row = i /\ result[j].Location = location_columns[k].name }

\* Row i is a plain product row whose quantity cell for map entry k is -5.
NegativeQuantityAt(i, k) ==
    /\ IsProductLabel(Rows[i][1])
    /\ QuantityIndex(k) < Len(Rows[i])
    /\ Rows[i][QuantityIndex(k) + 1] = CellNeg5

LiteralValue(cell) ==
    IF cell = Cell50 THEN Num(50)
    ELSE IF cell = Cell5 THEN Num(5)
    ELSE IF cell = CellNeg5 THEN Num(0 - 5)
    ELSE Num(0)

\* The record row i is due for map entry k under the running date cd.
DueRecord(i, k, cd) ==
    [Product |-> Trimmed(Rows[i][1].s),
     Date |-> IF cd = None
              THEN (IF variant = "app" THEN << "<ghayr>", " ", "<muhaddad>" >>
                    ELSE << "U", "n", "k", "n", "o", "w", "n" >>)
              ELSE cd.s,
     Location |-> location_columns[k].name,
     Quantity |-> LiteralValue(Rows[i][QuantityIndex(k) + 1]),
     Count |-> IF variant = "app" THEN [k |-> "absent", v |-> 0]
               ELSE LiteralValue(Rows[i][CountIndex(k) + 1]),
     row |-> i]

\* Whether map entry k is due a record from row i.
IsDue(i, k) ==
    \/ Positive(LiteralValue(Rows[i][QuantityIndex(k) + 1]))
    \/ variant = "simple" /\ Positive(LiteralValue(Rows[i][CountIndex(k) + 1]))

\* The records row i is due: one per map entry that is due one, in the order
\* of the map.
DueRecords(i, cd) ==
    LET entries == [k \in 1..Len(location_columns) |-> k]
        due == SelectSeq(entries, LAMBDA k : IsDue(i, k))
    IN  [n \in 1..Len(due) |-> DueRecord(i, due[n], cd)]

\* C15 (extraction rule): the step taken on a product row appends, for each
\* map entry, exactly one record if and only if the quantity (in
\* simple_inventory_app.py: the quantity or the count) is positive; the
\* record carries the trimmed label, the running date or the sentinel, the
\* name of the entry and the values of the mapped cells.
C15_ExtractionRule ==
    [][ (pc = "loop" /\ idx <= NRows /\ IsProductLabel(Rows[idx][1])
            /\ ClassOf[variant][Rows[idx]] = "product") =>
            processed_data' = processed_data \o DueRecords(idx, current_date) ]_vars

\* C15 witness: simple_inventory_app.py has accumulated, under the date of a
\* marker, the record of a row whose label had a trailing blank and whose
\* count is negative and quantity positive.
C15_Witness ==
    /\ pc = "loop"
    /\ variant = "simple"
    /\ \E j \in 1..Len(processed_data) :
          /\ processed_data[j].Product = << "[", "1", "0", "5", "]", " ", "D" >>
          /\ processed_data[j].Date = Iso15Jan2024
          /\ processed_data[j].Count = Num(0 - 5)
          /\ processed_data[j].Quantity = Num(5)

\* The labels of the sheets that hold a bracketed numeric code, and those
\* that hold an Arabic word.
CodeLabels == ProductLabels \cup { TxtCodeDate }
ArabicLabels ==
    { TxtMuntaj, TxtProduct101, Txt15Yanayir2024, TxtCaption, TxtCaptionDate }

\* The three conditions of a product row, read off the row itself: a label
\* that is there, a code or an Arabic word in it, and a cell beside the
\* label that is not missing and stands for a positive number.
MeetsProductConditions(row) ==
    /\ row[1].t = "str"
    /\ row[1].s # << >>
    /\ row[1].s \in CodeLabels \cup ArabicLabels
    /\ \E c \in 2..Len(row) : row[c].t = "str" /\ Positive(LiteralValue(row[c]))

\* C16 (product-row precondition): every record, accumulated or returned,
\* comes from a row that meets the three conditions; a row that fails one of
\* them has no record.
C16_ProductPrecondition ==
    /\ pc \in {"loop", "done"} =>
          \A j \in 1..Len(processed_data) :
              MeetsProductConditions(Rows[processed_data[j].row])
    /\ pc = "done" =>
          \A j \in 1..Len(result) : MeetsProductConditions(Rows[result[j].row])

\* C16 witness: a sheet with a row that has data but neither a code nor an
\* Arabic word in its label, and a product row; only the product row has a
\* record in the returned table.
C16_Witness ==
    /\ pc = "done"
    /\ NRows = 2
    /\ Rows[1][1] \in { Str(TxtTotal), NA }
    /\ Rows[1][NCols] = Cell50
    /\ IsProductLabel(Rows[2][1])
    /\ Len(result) = 1
    /\ result[1].row = 2

\* The labels of the sheets that hold a header/noise marker, and those in
\* which the date pattern is found ('15 <yanayir> 2024' and 'may 2024' in
\* app.py only).
MarkerLabels == { TxtCaption, TxtCaptionDate }
DatePatternLabels(v) ==
    { Txt15Jan2024, TxtJune2024, Txt31Feb2024, TxtCodeDate, TxtCaptionDate }
    \cup (IF v = "app" THEN { Txt15Yanayir2024, TxtMay2024 } ELSE { })

\* What a date-marker label commits: the ISO date when the whole label is a
\* date one of the formats parses, the label itself otherwise.
Committed(label) ==
    IF label = Txt15Jan2024 THEN Iso15Jan2024
    ELSE IF label = TxtJune2024 THEN Iso1June2024
    ELSE IF label = TxtMay2024
    THEN << "2", "0", "2", "4", "-", "0", "5", "-", "0", "1" >>
    ELSE label

\* C17 (priority skip > date > product > ignore): a row whose label holds a
\* marker is skipped, with no record and the running date unchanged, even if
\* the date pattern or the product test accepts it; a row whose label holds
\* the date pattern and no marker commits its date and emits no record, even
\* if it holds a product code and has positive data; any other row leaves
\* the running date unchanged.
C17_Priority ==
    [][ (pc = "loop" /\ idx <= NRows /\ Rows[idx][1].t = "str") =>
            LET label == Rows[idx][1].s IN
            IF label \in MarkerLabels
            THEN /\ idx' = idx + 1
                 /\ pc' = "loop"
                 /\ current_date' = current_date
                 /\ processed_data' = processed_data
            ELSE IF label \in DatePatternLabels(variant)
            THEN /\ idx' = idx + 1
                 /\ pc' = "loop"
                 /\ current_date' = Str(Committed(label))
                 /\ processed_data' = processed_data
            ELSE current_date' = current_date ]_vars

\* C17 witness: a caption that also holds a date and has positive data has
\* been skipped, then a label with a product code and a date, with positive
\* data under a mapped column, has overwritten the running date and emitted
\* no record.
C17_Witness ==
    /\ pc = "loop"
    /\ idx = 3
    /\ location_columns # << >>
    /\ Rows[1] = << Str(TxtCaptionDate), Cell5, Cell50 >>
    /\ Rows[2] = << Str(TxtCodeDate), Cell5, Cell50 >>
    /\ current_date = Str(TxtCodeDate)
    /\ processed_data = << >>

\* C18 (date-marker commit): the step taken on a date-marker row sets the
\* running date to the YYYY-MM-DD form of the label when one of the formats
\* parses the whole label, and to the label itself when none does (an Arabic
\* month, a date inside other text, a day the month does not have); the step
\* raises nothing and emits no record.
C18_DateCommit ==
    [][ (/\ pc = "loop"
         /\ idx <= NRows
         /\ Rows[idx][1].t = "str"
         /\ Rows[idx][1].s \in DatePatternLabels(variant) \ MarkerLabels) =>
            /\ current_date' = Str(Committed(Rows[idx][1].s))
            /\ processed_data' = processed_data
            /\ errors' = errors
            /\ raised' = raised
            /\ result' = result ]_vars

\* C18 witness: a label no format parses ('31 Feb 2024') has been committed
\* as it is, after a label that was committed as an ISO date.
C18_Witness ==
    /\ pc = "loop"
    /\ idx = 3
    /\ Rows[1][1] = Str(Txt15Jan2024)
    /\ Rows[2][1] = Str(Txt31Feb2024)
    /\ current_date = Str(Txt31Feb2024)
    /\ processed_data = << >>
    /\ errors = 0

----------------------------------------------------------------------------
(* Specification of the cleaning pass alone: a table of records is drawn,  *)
(* then _clean_and_sort_data / _clean_data is applied to it.               *)

\* The records drawn, as (date, product, location, quantity): two dates, a
\* product name with a leading blank that sorts the other way once trimmed,
\* two locations, two records with the same key, and one without stock.
CleanPool ==
    << << Iso15Jan2024, << "B" >>, "<alsala>", 5 >>,
       << Iso15Jan2024, << " ", "C" >>, "<alsala>", 5 >>,
       << Iso1June2024, << "B" >>, "<alsala>", 5 >>,
       << Iso15Jan2024, << "B" >>, "<almakhzun>", 5 >>,
       << Iso15Jan2024, << "B" >>, "<alsala>", 50 >>,
       << Iso15Jan2024, << "B" >>, "<alsala>", 0 >> >>

\* The table built from a choice of pool records; row is the position of the
\* record in the list the table is built from.
CleanTable(v, pick) ==
    [i \in DOMAIN pick |->
        [Product |-> CleanPool[pick[i]][2],
         Date |-> CleanPool[pick[i]][1],
         Location |-> CleanPool[pick[i]][3],
         Quantity |-> Num(CleanPool[pick[i]][4]),
         Count |-> IF v = "app" THEN NoCount ELSE Num(0),
         row |-> i]]

CleanPicks == UNION { [1..n -> 1..Len(CleanPool)] : n \in 1..MaxRecs }

InitClean ==
    /\ variant \in Variants
    /\ raw_df = [columns |-> << >>, rows |-> << >>]
    /\ pc = "clean"
    /\ idx = 0
    /\ current_date = None
    /\ \E pick \in CleanPicks :
          /\ processed_data = CleanTable(variant, pick)
          /\ processed_df = CleanTable(variant, pick)
    /\ location_columns = << >>
    /\ result = None
    /\ errors = 0
    /\ calls = 0
    /\ first_result = None
    /\ raised = FALSE
    /\ cell_in = None
    /\ float_out = None
    /\ uploaded_file = None
    /\ attempts = << >>

ApplyClean ==
    /\ pc = "clean"
    /\ processed_df' = clean_and_sort_data(variant, processed_df)
    /\ pc' = "clean_done"
    /\ UNCHANGED << uploaded_file, attempts >>
    /\ UNCHANGED << variant, raw_df, idx, current_date, processed_data,
                    location_columns, result, errors, calls, first_result,
                    raised, cell_in, float_out >>

NextClean == ApplyClean

SpecClean == InitClean /\ [][NextClean]_vars

\* The order of the sort key of a record of the drawn tables, read off the
\* texts: '2024-01-15' before '2024-06-01', 'B' before 'C', and the location
\* name <alsala> before <almakhzun> (sad, U+0635, before mim, U+0645).
DateOrdinal(d) == IF d = Iso15Jan2024 THEN 1 ELSE 2
ProductOrdinal(p) == IF p = << "B" >> THEN 1 ELSE 2
LocationOrdinal(l) == IF l = "<alsala>" THEN 1 ELSE 2
KeyOrdinal(r) ==
    DateOrdinal(r.Date) * 100 + ProductOrdinal(r.Product) * 10
        + LocationOrdinal(r.Location)

\* The table is the records of the input that have stock, each once, with
\* the product name trimmed and nothing else changed.
KeptAndTrimmed ==
    /\ \A i \in 1..Len(processed_data) :
          Cardinality({ j \in 1..Len(processed_df) : processed_df[j].row = i })
              = (IF processed_data[i].Quantity.v > 0 THEN 1 ELSE 0)
    /\ \A j \in 1..Len(processed_df) :
          processed_df[j] =
              [processed_data[processed_df[j].row]
                  EXCEPT !.Product = Trimmed(processed_data[processed_df[j].row].Product)]

\* C19 (ordering of the cleaning pass): the table is in ascending order of
\* (date, trimmed product, location) compared as strings, and records with
\* the same key are in the order of their source rows.
C19_SortedStable ==
    pc = "clean_done" =>
        /\ KeptAndTrimmed
        /\ \A j, k \in 1..Len(processed_df) :
              j < k =>
                  \/ KeyOrdinal(processed_df[j]) < KeyOrdinal(processed_df[k])
                  \/ /\ KeyOrdinal(processed_df[j]) = KeyOrdinal(processed_df[k])
                     /\ processed_df[j].row < processed_df[k].row

\* C19 witness: a table of three records was reordered, the record with the
\* trimmed name 'C' going behind a 'B' record that came after it, and two
\* records with the same key are still in source order.
C19_Witness ==
    /\ pc = "clean_done"
    /\ Len(processed_df) = 3
    /\ processed_data[1].Product = << " ", "C" >>
    /\ processed_df[3].row = 1
    /\ KeyOrdinal(processed_df[1]) = KeyOrdinal(processed_df[2])
    /\ processed_df[1].Quantity # processed_df[2].Quantity
    /\ processed_df[1].row < processed_df[2].row

----------------------------------------------------------------------------
(* Specification of the extraction alone: a row and a location map are     *)
(* drawn, the map possibly naming columns the row does not have, then      *)
(* _extract_all_warehouse_data / _extract_product_data is applied.         *)

\* The rows drawn: a product label and one or two data cells.
ExtractRows ==
    { << Str(TxtProduct101) >> \o cells :
        cells \in UNION { [1..n -> { Cell5, Cell0 }] : n \in 1..2 } }

\* The column indices an entry at column i holds in each file.
ColsAt(v, i) == IF v = "app" THEN << i >> ELSE << i, i + 1 >>

\* The maps drawn: one entry, or two entries with different names.
ExtractMaps(v) ==
    { << [name |-> "<alsala>", cols |-> ColsAt(v, i)] >> : i \in 1..MaxIndex }
    \cup { << [name |-> "<alsala>", cols |-> ColsAt(v, i)],
              [name |-> "<almakhzun>", cols |-> ColsAt(v, j)] >> :
            i \in 1..MaxIndex, j \in 1..MaxIndex }

InitExtract ==
    /\ variant \in Variants
    /\ \E r \in ExtractRows : raw_df = [columns |-> << >>, rows |-> << r >>]
    /\ location_columns \in ExtractMaps(variant)
    /\ pc = "extract"
    /\ idx = 1
    /\ current_date = None
    /\ processed_data = << >>
    /\ processed_df = None
    /\ result = None
    /\ errors = 0
    /\ calls = 0
    /\ first_result = None
    /\ raised = FALSE
    /\ cell_in = None
    /\ float_out = None
    /\ uploaded_file = None
    /\ attempts = << >>

ApplyExtract ==
    /\ pc = "extract"
    /\ processed_data' =
           extract_product_data(variant, Row, current_date, location_columns, idx)
    /\ pc' = "extract_done"
    /\ UNCHANGED << uploaded_file, attempts >>
    /\ UNCHANGED << variant, raw_df, idx, current_date, location_columns,
                    processed_df, result, errors, calls, first_result, raised,
                    cell_in, float_out >>

NextExtract == ApplyExtract

SpecExtract == InitExtract /\ [][NextExtract]_vars

\* The one row of the drawn input, and the cell of it at a 0-based index:
\* the number it stands for, 0 when the row has no such cell.
OneRow == Rows[1]
InRange(i) == i < Len(OneRow)
ValueAt(i) == IF InRange(i) THEN LiteralValue(OneRow[i + 1]) ELSE Num(0)

\* The records extracted for map entry k.
ExtractedAt(k) ==
    { j \in 1..Len(processed_data) :
        processed_data[j].Location = location_columns[k].name }

\* Map entry k has an index the row does not have.
OutOfRange(k) == ~InRange(QuantityIndex(k)) \/ ~InRange(CountIndex(k))

PairableColumns(n) ==
    { i \in 0..(NCols - 2) :
        \E e \in 1..Len(locations) : FragmentIn(e, i) /\ locations[e].key[2] = n }

\* C21 (paired columns, simple_inventory_app.py): every map entry is the pair
\* (i, i + 1) for a header column i whose label holds a fragment of that
\* name, the rightmost such column; and every record carries as count the
\* value of the cell under column i and as quantity the value of the cell
\* under column i + 1 of its source row.
C21_PairedColumns ==
    (variant = "simple" /\ pc \in {"loop", "done"}) =>
        /\ \A k \in 1..Len(location_columns) :
              LET n == location_columns[k].name IN
              /\ PairableColumns(n) # { }
              /\ location_columns[k].cols
                    = << Largest(PairableColumns(n)), Largest(PairableColumns(n)) + 1 >>
        /\ \A n \in { locations[e].key[2] : e \in 1..Len(locations) } :
              PairableColumns(n) # { } => Entries(n) # { }
        /\ \A j \in 1..Len(processed_data) :
              LET n == processed_data[j].Location
                  i == Largest(PairableColumns(n))
                  row == Rows[processed_data[j].row]
              IN  /\ processed_data[j].Count = LiteralValue(row[i + 1])
                  /\ processed_data[j].Quantity = LiteralValue(row[i + 2])

\* C21 witness: simple_inventory_app.py has accumulated the record of the
\* row (5, -5) under the header (Product, fragment, Qty): count 5 from the
\* column of the fragment, quantity -5 from the column after it.
C21_Witness ==
    /\ variant = "simple"
    /\ pc = "loop"
    /\ Cols = << ColProduct, ColMain, ColQty >>
    /\ location_columns = << [name |-> "<almakhzan alraisa>", cols |-> << 1, 2 >>] >>
    /\ \E j \in 1..Len(processed_data) :
          /\ Rows[processed_data[j].row] = << Str(TxtProduct104), Cell5, CellNeg5 >>
          /\ processed_data[j].Count = Num(5)
          /\ processed_data[j].Quantity = Num(0 - 5)

----------------------------------------------------------------------------
(* Specification of the reading step of main: a file is uploaded, then     *)
(* pd.read_csv is tried on it, once per encoding that main tries, until an *)
(* attempt succeeds (the processor is then constructed on the DataFrame)   *)
(* or an exception reaches the except clause of main, which reports it.    *)

\* The encodings an uploaded file may have been written in.
FileEncodings == { "utf-8", "utf-8-sig", "cp1256" }

\* The tables the uploaded files hold: a header of text labels and at most
\* one row.  Every header has an Arabic label, so the bytes of a file written
\* in cp1256 are not valid UTF-8.
FileTables ==
    UNION { { [columns |-> SampleHeaders[h], rows |-> rs] :
                rs \in { << >> } \cup
                       { << FitRow(SampleRows[i], Len(SampleHeaders[h])) >> :
                           i \in { j \in 1..Len(SampleRows) :
                                     \A c \in 1..3 :
                                        SampleRows[j][c].t \in {"str", "na"} } } } :
            h \in { g \in 1..Len(SampleHeaders) :
                      \A c \in 1..Len(SampleHeaders[g]) :
                         SampleHeaders[g][c].t = "str" } }

\* The uploaded files: the encoding of the bytes, whether every record has as
\* many fields as the header, the table the bytes stand for, and the
\* position of the next read (0: the start; 1: the end, the files being
\* shorter than one read).
UploadedFiles ==
    { [encoding |-> e, wellformed |-> w, table |-> t, pos |-> 0] :
        e \in FileEncodings, w \in BOOLEAN, t \in FileTables }

\* uploaded_file.seek(0).
seek0(f) == [f EXCEPT !.pos = 0]

\* The label of the first column when the signature of a file written in
\* utf-8-sig is decoded as a character of the text (utf-8 does so).
ColBomProduct == Str(<< << "\\ufeffProduct" >> >>)

\* The label of a column whose UTF-8 bytes were decoded as cp1256.
ColMojibake == Str(<< << "mojibake" >> >>)

\* The text of a file under a codec: the table when the codec is the file's
\* own (or utf-8-sig on a file without signature), the table with the
\* signature in its first label when utf-8 reads a signed file, unreadable
\* labels when cp1256 reads UTF-8 bytes, and a UnicodeDecodeError when a
\* UTF-8 codec reads the cp1256 bytes of Arabic text.  cp1256 gives every
\* byte a character, so it never fails.
Decode(f, enc) ==
    IF enc = "cp1256"
    THEN IF f.encoding = "cp1256"
         THEN [k |-> "ok", df |-> f.table]
         ELSE [k |-> "ok",
               df |-> [f.table EXCEPT
                          !.columns = [c \in DOMAIN f.table.columns |-> ColMojibake]]]
    ELSE IF f.encoding = "cp1256"
         THEN [k |-> "UnicodeDecodeError", df |-> None]
         ELSE IF f.encoding = "utf-8-sig" /\ enc = "utf-8"
              THEN [k |-> "ok", df |-> [f.table EXCEPT !.columns[1] = ColBomProduct]]
              ELSE [k |-> "ok", df |-> f.table]

\* pd.read_csv(uploaded_file, encoding=enc): nothing is left to read when
\* the file is not at its start (EmptyDataError), the bytes are decoded, and
\* a record with more fields than the header is a ParserError.
read_csv(f, enc) ==
    IF f.pos # 0 THEN [k |-> "EmptyDataError", df |-> None]
    ELSE IF Decode(f, enc).k # "ok" THEN Decode(f, enc)
    ELSE IF ~f.wellformed THEN [k |-> "ParserError", df |-> None]
    ELSE Decode(f, enc)

\* One pd.read_csv call, recorded: the file is read to its end.
Attempt(f, enc) ==
    /\ attempts' = Append(attempts, [encoding |-> enc, pos |-> f.pos,
                                      outcome |-> read_csv(f, enc).k])
    /\ uploaded_file' = [f EXCEPT !.pos = 1]

\* The DataFrame was read: the processor is constructed on it.
Constructed(df) ==
    /\ raw_df' = df
    /\ pc' = "idle"
    /\ UNCHANGED errors

\* The exception reached the except clause of main: st.error.
Reported ==
    /\ pc' = "reported"
    /\ errors' = errors + 1
    /\ UNCHANGED raw_df

\* Whether main has an except clause for this failure of its first attempt.
HasFallback(v, k) == v = "app" /\ k = "UnicodeDecodeError"

InitRead ==
    /\ variant \in Variants
    /\ uploaded_file \in UploadedFiles
    /\ attempts = << >>
    /\ raw_df = None
    /\ pc = "upload"
    /\ idx = 0
    /\ current_date = None
    /\ processed_data = << >>
    /\ location_columns = << >>
    /\ processed_df = None
    /\ result = None
    /\ errors = 0
    /\ calls = 0
    /\ first_result = None
    /\ raised = FALSE
    /\ cell_in = None
    /\ float_out = None

\* df = pd.read_csv(uploaded_file, encoding='utf-8')
ReadUtf8 ==
    /\ pc = "upload"
    /\ Attempt(uploaded_file, "utf-8")
    /\ LET out == read_csv(uploaded_file, "utf-8")
       IN  IF out.k = "ok" THEN Constructed(out.df)
           ELSE IF HasFallback(variant, out.k)
                THEN pc' = "except_utf8" /\ UNCHANGED << raw_df, errors >>
                ELSE Reported
    /\ UNCHANGED << variant, idx, current_date, processed_data,
                    location_columns, processed_df, result, calls,
                    first_result, raised, cell_in, float_out >>

\* except UnicodeDecodeError: seek(0), then read_csv with utf-8-sig; any
\* failure of it is caught by the bare except.
ReadUtf8Sig ==
    /\ pc = "except_utf8"
    /\ Attempt(seek0(uploaded_file), "utf-8-sig")
    /\ LET out == read_csv(seek0(uploaded_file), "utf-8-sig")
       IN  IF out.k = "ok" THEN Constructed(out.df)
           ELSE pc' = "except_sig" /\ UNCHANGED << raw_df, errors >>
    /\ UNCHANGED << variant, idx, current_date, processed_data,
                    location_columns, processed_df, result, calls,
                    first_result, raised, cell_in, float_out >>

\* except: seek(0), then read_csv with cp1256; a failure of it leaves the
\* inner handlers and reaches the except clause of main.
ReadCp1256 ==
    /\ pc = "except_sig"
    /\ Attempt(seek0(uploaded_file), "cp1256")
    /\ LET out == read_csv(seek0(uploaded_file), "cp1256")
       IN  IF out.k = "ok" THEN Constructed(out.df) ELSE Reported
    /\ UNCHANGED << variant, idx, current_date, processed_data,
                    location_columns, processed_df, result, calls,
                    first_result, raised, cell_in, float_out >>

NextRead ==
    \/ ReadUtf8
    \/ ReadUtf8Sig
    \/ ReadCp1256

SpecRead == InitRead /\ [][NextRead]_vars

\* C22: Encoding fallback order, in both variants: the first attempt reads
\* as UTF-8; UTF-8 with signature is attempted only after the UTF-8 attempt
\* failed to decode, cp1256 only after both earlier attempts failed; every
\* retry starts at position 0; and when the first attempt failed to decode,
\* no error is reported before the two fallback attempts were made.
C22_FallbackOrder ==
    /\ attempts # << >> => attempts[1].encoding = "utf-8"
    /\ \A k \in 1..Len(attempts) :
          /\ attempts[k].encoding = "utf-8-sig" =>
                k = 2 /\ attempts[1].outcome = "UnicodeDecodeError"
          /\ attempts[k].encoding = "cp1256" =>
                /\ k = 3
                /\ attempts[2].encoding = "utf-8-sig"
                /\ attempts[1].outcome # "ok"
                /\ attempts[2].outcome # "ok"
          /\ k > 1 => attempts[k].pos = 0
    /\ (errors > 0 /\ attempts # << >>
           /\ attempts[1].outcome = "UnicodeDecodeError") =>
          { attempts[k].encoding : k \in 1..Len(attempts) } = FileEncodings

----------------------------------------------------------------------------
(* Specification of the product branch of the loop body alone: a row that  *)
(* is neither a header row nor a date marker and a location map are drawn, *)
(* then the product test is applied and, when it accepts the row, the      *)
(* extraction.                                                             *)

Cell5Quoted == Str(<< "\"", "5", "\"" >>)

\* The labels drawn: a code and an Arabic name, a code alone, an Arabic name
\* alone, neither.
TestLabels == { TxtProduct101, TxtProduct102, TxtMuntaj, TxtTotal }

\* The data cells drawn: positive, zero, negative, positive once its quotes
\* are removed, missing, and a list (pd.isna raises on it).
TestCells == { Cell5, Cell0, CellNeg5, Cell5Quoted, NA, LIST }

TestRows ==
    { << Str(l) >> \o cells :
        l \in TestLabels,
        cells \in UNION { [1..n -> TestCells] : n \in 1..2 } }

\* The maps drawn: one entry or two, at any column, the label column
\* included.
TestMaps(v) ==
    { << [name |-> "<alsala>", cols |-> ColsAt(v, i)] >> : i \in 0..MaxIndex }
    \cup { << [name |-> "<alsala>", cols |-> ColsAt(v, i)],
              [name |-> "<almakhzun>", cols |-> ColsAt(v, j)] >> :
            i \in 0..MaxIndex, j \in 0..MaxIndex }

InitTest ==
    /\ variant \in Variants
    /\ \E r \in TestRows : raw_df = [columns |-> << >>, rows |-> << r >>]
    /\ location_columns \in TestMaps(variant)
    /\ pc = "test"
    /\ idx = 1
    /\ current_date = None
    /\ processed_data = << >>
    /\ processed_df = None
    /\ result = None
    /\ errors = 0
    /\ calls = 0
    /\ first_result = None
    /\ raised = FALSE
    /\ cell_in = None
    /\ float_out = None
    /\ uploaded_file = None
    /\ attempts = << >>

\* What the product branch appends under the test of the file `form`:
\* `if self._is_product_row(row, first_col):` the records extracted.
Emitted(form, v, row, cd, map, rowid) ==
    IF product_test(form, v, row, LabelText(row[1])) = "true"
    THEN extract_product_data(v, row, cd, map, rowid)
    ELSE << >>

\* The branch on the drawn row; an exception of the test leaves the loop.
ApplyTest ==
    /\ pc = "test"
    /\ pc' = "test_done"
    /\ raised' = (is_product_row(variant, Row, LabelText(Row[1])) = "raise")
    /\ processed_data' = processed_data \o
           Emitted(variant, variant, Row, current_date, location_columns, idx)
    /\ UNCHANGED << uploaded_file, attempts >>
    /\ UNCHANGED << variant, raw_df, idx, current_date, location_columns,
                    processed_df, result, errors, calls, first_result,
                    cell_in, float_out >>

NextTest == ApplyTest

SpecTest == InitTest /\ [][NextTest]_vars

\* The test of the other file.
OtherForm(v) == IF v = "app" THEN "simple" ELSE "app"

TestOf(form) == product_test(form, variant, OneRow, LabelText(OneRow[1]))

\* C23: Equivalence of the two product-row tests: on every row and every
\* location map, under the extraction of either file, the AND form and the
\* OR form of the test append the same records (and raise on the same rows);
\* what the branch appended is what the test of the other file would have
\* appended; the two forms disagree only on a row with a bracketed code and
\* no positive data cell, and the extraction of such a row emits nothing.
C23_TestsEquivalent ==
    LET app == Emitted("app", variant, OneRow, current_date, location_columns, 1)
        simple == Emitted("simple", variant, OneRow, current_date, location_columns, 1)
    IN  /\ app = simple
        /\ (TestOf("app") = "raise") = (TestOf("simple") = "raise")
        /\ pc = "test_done" =>
              processed_data =
                 Emitted(OtherForm(variant), variant, OneRow, current_date,
                         location_columns, 1)
        /\ TestOf("app") # TestOf("simple") =>
              /\ has_product_code(LabelText(OneRow[1]))
              /\ has_data(variant, OneRow) = "false"
              /\ \A i \in 1..(Len(OneRow) - 1) : ~Positive(LiteralValue(OneRow[i + 1]))
              /\ extract_product_data(variant, OneRow, current_date,
                                      location_columns, 1) = << >>

\* C23 witness: the OR form has accepted a row with a code and no positive
\* cell, which the AND form rejects, the map names columns of the row, and
\* nothing was appended.
C23_Witness ==
    /\ pc = "test_done"
    /\ variant = "simple"
    /\ OneRow = << Str(TxtProduct102), Cell0, CellNeg5 >>
    /\ location_columns = << [name |-> "<alsala>", cols |-> << 1, 2 >>] >>
    /\ TestOf("simple") = "true"
    /\ TestOf("app") = "false"
    /\ processed_data = << >>

\* How many times a record occurs in a sequence of records.
Occurrences(s, r) == Cardinality({ i \in 1..Len(s) : s[i] = r })

\* C24: the cleaning pass removes nothing that extraction emitted.  Every
\* record the row loop accumulates meets the condition of the filter of the
\* cleaning pass of its file (quantity > 0 in app.py; count > 0 or
\* quantity > 0 in simple_inventory_app.py); when the loop has reached its end
\* the table returned holds the accumulated records, each as many times as it
\* was accumulated and none else; and one more cleaning pass over the table
\* returned leaves it as it is.
C24_CleaningKeepsAll ==
    /\ pc \in {"loop", "done"} =>
          \A k \in 1..Len(processed_data) :
             IF variant = "app"
             THEN Positive(processed_data[k].Quantity)
             ELSE \/ Positive(processed_data[k].Count)
                  \/ Positive(processed_data[k].Quantity)
    /\ (pc = "done" /\ ~raised) =>
          /\ Len(result) = Len(processed_data)
          /\ \A k \in 1..Len(processed_data) :
                Occurrences(result, processed_data[k]) =
                   Occurrences(processed_data, processed_data[k])
          /\ \A j \in 1..Len(result) :
                \E k \in 1..Len(processed_data) : processed_data[k] = result[j]
          /\ clean_and_sort_data(variant, result) = result

\* C24 witness: the loop accumulated the record of product 102 (count 5,
\* quantity 0) before that of product 101, and the table returned holds both,
\* in the other order.
C24_Witness ==
    /\ pc = "done"
    /\ ~raised
    /\ variant = "simple"
    /\ Len(processed_data) = 2
    /\ processed_data[1].Product = TxtProduct102
    /\ processed_data[1].Count = Num(5)
    /\ processed_data[1].Quantity = Num(0)
    /\ result = << processed_data[2], processed_data[1] >>

\* A cell of the drawn rows that holds a positive number: '5', and '"5"' in
\* app.py, which removes the quotes.
PositiveCell(v, cell) == cell = Cell5 \/ (v = "app" /\ cell = Cell5Quoted)

\* The column indices the location map holds.
MappedColumns ==
    { location_columns[k].cols[c] :
        k \in 1..Len(location_columns), c \in 1..(IF variant = "app" THEN 1 ELSE 2) }

\* C25: Per-row uniqueness: the records emitted from one product row have
\* pairwise distinct location names and are at most as many as the entries
\* of the location map; a row with no positive value in a mapped column
\* (its positive values lie only in unmapped columns) emits no record.
C25_PerRow ==
    pc = "test_done" =>
        /\ \A j, k \in 1..Len(processed_data) :
              j # k => processed_data[j].Location # processed_data[k].Location
        /\ Len(processed_data) <= Len(location_columns)
        /\ \A j \in 1..Len(processed_data) :
              \E k \in 1..Len(location_columns) :
                 processed_data[j].Location = location_columns[k].name
        /\ (\A i \in MappedColumns : ~(InRange(i) /\ PositiveCell(variant, OneRow[i + 1])))
              => processed_data = << >>

\* C25 witness: the test accepted a product row whose one positive value is
\* in column 1 while the map holds column 2 only: nothing was emitted.
C25_Witness ==
    /\ pc = "test_done"
    /\ variant = "app"
    /\ OneRow = << Str(TxtProduct101), Cell5, Cell0 >>
    /\ location_columns = << [name |-> "<alsala>", cols |-> << 2 >>] >>
    /\ TestOf("app") = "true"
    /\ processed_data = << >>

\* The catalog entries that go by the same location name as entry e.
Namesakes(e) ==
    { f \in 1..Len(locations) : NameOfFragment(f) = NameOfFragment(e) }

\* C26: LocationMap well-formedness.  Every index an entry holds is a
\* position of the header row: one index in app.py; in
\* simple_inventory_app.py the count index i and the quantity index i + 1,
\* both below the number of columns, so that a name whose fragments occur
\* in the last column only has no entry.  The label at the (first) index of
\* an entry holds a catalog fragment, index 0 included, and the entry goes
\* by the name of the first catalog entry, in catalog order, whose fragment
\* that label holds; no two entries refer to the same column.
C26_WellFormed ==
    pc = "map_done" =>
        /\ \A k \in 1..Len(location_columns) :
              LET cs == location_columns[k].cols
              IN  /\ Len(cs) = (IF variant = "app" THEN 1 ELSE 2)
                  /\ \A c \in 1..Len(cs) : cs[c] \in 0..(NCols - 1)
                  /\ variant = "simple" => cs[2] = cs[1] + 1
                  /\ EntriesIn(cs[1]) # { }
                  /\ location_columns[k].name =
                        NameOfFragment(Smallest(EntriesIn(cs[1])))
        /\ \A j, k \in 1..Len(location_columns) :
              j # k => location_columns[j].cols[1] # location_columns[k].cols[1]
        /\ variant = "simple" =>
              \A e \in 1..Len(locations) :
                 (\A f \in Namesakes(e) : ColumnsWith(f) \subseteq { NCols - 1 })
                    => Entries(NameOfFragment(e)) = { }

\* C26 witness: in simple_inventory_app.py, a header of three columns whose
\* label column holds one fragment and whose last column holds the fragment
\* of the main warehouse: the map has the entry (0, 1) alone.
C26_Witness ==
    /\ pc = "map_done"
    /\ variant = "simple"
    /\ NCols = 3
    /\ EntriesIn(0) # { }
    /\ ColumnsWith(7) = { 2 }
    /\ EntriesIn(1) = { }
    /\ Len(location_columns) = 1
    /\ location_columns[1].cols = << 0, 1 >>

====
